---------------------------- MODULE Spec2Model ----------------------------
(***************************************************************************)
(* A model of swf/models/workflow.py: the WorkflowType and                 *)
(* WorkflowExecution wrappers, their calls to the SWF connection, and the  *)
(* translation of the connection's faults into the package's exceptions.   *)
(*                                                                         *)
(* Python values are modelled as strings; None is the string None below,   *)
(* which differs from the Python string 'None' that str(None) yields.      *)
(***************************************************************************)
EXTENDS Naturals, Sequences, FiniteSets, TLC

VARIABLES
    wt,       \* the caller's WorkflowType object (its attributes)
    we,       \* the caller's WorkflowExecution object, or NoObject
    remote,   \* the remote service: domain, type registration, executions
    now,      \* int(time.time())
    op,       \* the operation the last step performed
    args,     \* the arguments the caller gave it
    req,      \* the request it sent to the connection (None: no request)
    fault,    \* the connection's answer: OK or a fault's error code
    body,     \* the payload of a successful answer
    outcome,  \* "return", or the class of the exception the caller receives
    ret,      \* the value returned
    calls     \* the number of connection calls the operation made

vars == <<wt, we, remote, now, op, args, req, fault, body, outcome, ret, calls>>

----------------------------------------------------------------------------
(* Bounds of the model *)

MaxRuns == 2
MaxTime == 1
MaxEvents == 2

----------------------------------------------------------------------------
(* Python values *)

None == "<None>"
Unset == "<no attribute>"

\* None where the program expects an object, and where it expects a list
NoObject == [class |-> "NoneType"]
NoneList == <<None>>

\* str(v), for the values the model holds
Str(v) == IF v = None THEN "None" ELSE v

\* a or b
Or(a, b) == IF a \in {None, ""} THEN b ELSE a

Range(s) == {s[i] : i \in 1..Len(s)}

----------------------------------------------------------------------------
(* Module constants *)

_POLICIES == <<"TERMINATE", "REQUEST_CANCEL", "ABANDON">>

CHILD_POLICIES == _POLICIES

REGISTERED == "REGISTERED"
DEPRECATED == "DEPRECATED"

STATUS_OPEN == "OPEN"
STATUS_CLOSED == "CLOSED"

CLOSE_STATUS_COMPLETED == "COMPLETED"
CLOSE_STATUS_FAILED == "FAILED"
CLOSE_STATUS_CANCELED == "CANCELED"
CLOSE_STATUS_TERMINATED == "TERMINATED"
CLOSE_STATUS_CONTINUED_AS_NEW == "CLOSE_STATUS_CONTINUED_AS_NEW"
CLOSE_TIMED_OUT == "TIMED_OUT"

\* the close-status constants the class WorkflowExecution defines
CloseStatusConstants ==
    <<CLOSE_STATUS_COMPLETED, CLOSE_STATUS_FAILED, CLOSE_STATUS_CANCELED,
      CLOSE_STATUS_TERMINATED, CLOSE_STATUS_CONTINUED_AS_NEW, CLOSE_TIMED_OUT>>

----------------------------------------------------------------------------
(* The connection's answers *)

OK == "OK"
UnknownResourceFault == "UnknownResourceFault"
TypeAlreadyExistsFault == "TypeAlreadyExistsFault"
TypeDeprecatedFault == "TypeDeprecatedFault"
WorkflowExecutionAlreadyStartedFault == "WorkflowExecutionAlreadyStartedFault"
OperationNotPermittedFault == "OperationNotPermittedFault"

\* faults the service may answer any request with, whatever its state
TransportFaults == {OperationNotPermittedFault}

\* the exception class boto raises for a fault
ExceptionClass(f) ==
    CASE f = TypeAlreadyExistsFault -> "SWFTypeAlreadyExistsError"
      [] f = WorkflowExecutionAlreadyStartedFault ->
             "SWFWorkflowExecutionAlreadyStartedError"
      [] f = OperationNotPermittedFault -> "SWFOperationNotPermittedError"
      [] OTHER -> "SWFResponseError"

\* isinstance(e, SWFResponseError): every class above derives from it
IsSWFResponseError(f) == f # OK

----------------------------------------------------------------------------
(* class WorkflowType *)

DomainName == "orders"
TypeName == "ProcessOrder"
TypeVersion == "1.0"

\* child_policy (getter): creates the hidden attribute on first access
child_policy_getter(self) ==
    IF self.child_policy = Unset THEN None ELSE self.child_policy

\* child_policy (setter) without its validation
child_policy_setter_unchecked(self, policy) ==
    [exc |-> None, self |-> [self EXCEPT !.child_policy = policy]]

\* child_policy (setter): the exception raised (None: none) and the object
child_policy_setter(self, policy) ==
    IF ~(policy \in Range(CHILD_POLICIES))
    THEN [exc |-> "ValueError", self |-> self]
    ELSE [exc |-> None, self |-> [self EXCEPT !.child_policy = policy]]

\* WorkflowType.__init__: the exception raised and the object built
WorkflowType__init__(domain, name, version, status, creation_date, deprecation_date, task_list, child_policy, execution_timeout, decision_tasks_timeout, description) ==
    child_policy_setter(
        [class |-> "WorkflowType",
         domain |-> domain,
         name |-> name,
         version |-> version,
         status |-> status,
         creation_date |-> creation_date,
         deprecation_date |-> deprecation_date,
         task_list |-> task_list,
         execution_timeout |-> execution_timeout,
         decision_tasks_timeout |-> decision_tasks_timeout,
         description |-> description,
         child_policy |-> Unset],
        child_policy)

\* WorkflowType(domain, name, version): every other parameter at its default
DefaultWorkflowType ==
    WorkflowType__init__(DomainName, TypeName, TypeVersion, REGISTERED, 0, 0,
                         None, "TERMINATE", "300", "300", None).self

----------------------------------------------------------------------------
(* class WorkflowExecution *)

\* WorkflowExecution.__init__; workflow_type is accepted and not stored
WorkflowExecution__init__(domain, workflow_type, workflow_id, run_id, status, task_list, child_policy, execution_timeout, input, tag_list, decision_tasks_timeout) ==
    [class |-> "WorkflowExecution",
     domain |-> domain,
     workflow_id |-> workflow_id,
     run_id |-> run_id,
     status |-> status,
     task_list |-> task_list,
     child_policy |-> child_policy,
     execution_timeout |-> execution_timeout,
     input |-> input,
     tag_list |-> IF tag_list \in {NoneList, <<>>} THEN <<>> ELSE tag_list,
     decision_tasks_timeout |-> decision_tasks_timeout]

----------------------------------------------------------------------------
(* The remote service behind the connection *)

Absent == [status |-> "ABSENT"]

NoRequest == [operation |-> "none"]
NoArgs == [given |-> "none"]
NoBody == [empty |-> TRUE]

TypeExists(r) == r.domain /\ r.type.status # "ABSENT"

\* the type a register_workflow_type request creates: its key and status
\* (the operations below read nothing else of a registered type)
RegisteredType(q) ==
    [name |-> q.name, version |-> q.version, status |-> REGISTERED]

\* the service's answer to register_workflow_type in state r
RegisterReply(r) ==
    IF ~r.domain THEN UnknownResourceFault
    ELSE IF r.type.status # "ABSENT" THEN TypeAlreadyExistsFault
    ELSE OK

\* the service's answer to deprecate_workflow_type in state r
DeprecateReply(r) ==
    IF ~TypeExists(r) THEN UnknownResourceFault
    ELSE IF r.type.status = DEPRECATED THEN TypeDeprecatedFault
    ELSE OK

\* the service's answer to describe_workflow_type in state r
DescribeTypeReply(r) ==
    IF ~TypeExists(r) THEN UnknownResourceFault ELSE OK

\* the answers a request may get: the state's, or a fault of the transport
Replies(stateReply) == {stateReply} \cup TransportFaults

\* the run id the service assigns to its n-th execution
RunId(n) == "run-" \o ToString(n)

\* an open execution of the domain has this workflow id
IsOpen(r, workflow_id) ==
    \E i \in 1..Len(r.runs) :
        r.runs[i].workflowId = workflow_id /\ r.runs[i].status = STATUS_OPEN

\* the service's answer to start_workflow_execution in state r
StartReply(r, q) ==
    IF ~TypeExists(r) THEN UnknownResourceFault
    ELSE IF r.type.status = DEPRECATED THEN TypeDeprecatedFault
    ELSE IF IsOpen(r, q.workflow_id) THEN WorkflowExecutionAlreadyStartedFault
    ELSE OK

\* the execution a start_workflow_execution request creates
StartedRun(r, q) ==
    [workflowId |-> q.workflow_id,
     runId |-> RunId(Len(r.runs) + 1),
     status |-> STATUS_OPEN]

\* the service's answer to describe_workflow_execution in state r
DescribeExecutionReply(r, q) ==
    IF r.domain /\ \E i \in 1..Len(r.runs) :
                      /\ r.runs[i].runId = q.run_id
                      /\ r.runs[i].workflowId = q.workflow_id
    THEN OK
    ELSE UnknownResourceFault

----------------------------------------------------------------------------
(* WorkflowType: save, delete, exists, start_execution *)

\* the register_workflow_type call of save()
save_request(self) ==
    [operation |-> "register_workflow_type",
     domain |-> self.domain,
     name |-> self.name,
     version |-> self.version,
     task_list |-> Str(self.task_list),
     default_child_policy |-> Str(child_policy_getter(self)),
     default_execution_start_to_close_timeout |-> Str(self.execution_timeout),
     default_task_start_to_close_timeout |-> Str(self.decision_tasks_timeout),
     description |-> self.description]

\* save() with the except clause for SWFTypeAlreadyExistsError left out
save_outcome_no_already_exists(f) ==
    IF f = OK THEN "return"
    ELSE IF IsSWFResponseError(f) /\ f = UnknownResourceFault
         THEN "DoesNotExistError"
    ELSE "return"

\* save(): how the call's answer ends the operation
save_outcome(f) ==
    IF f = OK THEN "return"
    ELSE IF ExceptionClass(f) = "SWFTypeAlreadyExistsError"
         THEN "AlreadyExistsError"
    ELSE IF IsSWFResponseError(f) /\ f = UnknownResourceFault
         THEN "DoesNotExistError"
    ELSE "return"

\* the deprecate_workflow_type call of delete()
delete_request(self) ==
    [operation |-> "deprecate_workflow_type",
     domain |-> self.domain,
     name |-> self.name,
     version |-> self.version]

\* delete() testing the error code against UnknownResourceFault alone
delete_outcome_unknown_only(f) ==
    IF f = OK THEN "return"
    ELSE IF IsSWFResponseError(f) /\ f \in {UnknownResourceFault}
         THEN "DoesNotExistError"
    ELSE "return"

\* delete(): how the call's answer ends the operation
delete_outcome(f) ==
    IF f = OK THEN "return"
    ELSE IF IsSWFResponseError(f)
            /\ f \in {UnknownResourceFault, TypeDeprecatedFault}
         THEN "DoesNotExistError"
    ELSE "return"

\* the describe_workflow_type call of exists and _diff
describe_type_request(self) ==
    [operation |-> "describe_workflow_type",
     domain |-> self.domain,
     name |-> self.name,
     version |-> self.version]

\* exists answering False to every fault
WorkflowType_exists_any_fault(f) ==
    IF f = OK THEN [exc |-> None, value |-> TRUE]
    ELSE [exc |-> None, value |-> FALSE]

\* WorkflowType.exists: the exception raised (None: none) and the value
WorkflowType_exists(f) ==
    IF f = OK THEN [exc |-> None, value |-> TRUE]
    ELSE IF f # UnknownResourceFault
         THEN [exc |-> "ResponseError", value |-> None]
    ELSE [exc |-> None, value |-> FALSE]

\* '%s-%s-%i' % (self.name, self.version, time.time())
DefaultWorkflowId(self, t) ==
    self.name \o "-" \o self.version \o "-" \o ToString(t)

\* the start_workflow_execution call of start_execution()
start_request(self, workflow_id, task_list, child_policy, execution_timeout, input, tag_list, decision_tasks_timeout, t) ==
    [operation |-> "start_workflow_execution",
     domain |-> self.domain,
     workflow_id |-> Or(workflow_id, DefaultWorkflowId(self, t)),
     name |-> self.name,
     version |-> self.version,
     task_list |-> Or(task_list, self.task_list),
     child_policy |-> Or(child_policy, child_policy_getter(self)),
     execution_start_to_close_timeout |-> execution_timeout,
     input |-> input,
     tag_list |-> tag_list,
     task_start_to_close_timeout |-> decision_tasks_timeout]

\* return WorkflowExecution(self.domain, workflow_id, run_id): the three
\* values bind to the parameters domain, workflow_type, workflow_id
start_execution_result(self, workflow_id, run_id) ==
    WorkflowExecution__init__(self.domain, workflow_id, run_id, None,
                              STATUS_OPEN, None, None, None, None, NoneList,
                              None)

----------------------------------------------------------------------------
(* WorkflowExecution: exists *)

\* the describe_workflow_execution call of exists and _diff
describe_execution_request(self) ==
    [operation |-> "describe_workflow_execution",
     domain |-> self.domain,
     run_id |-> self.run_id,
     workflow_id |-> self.workflow_id]

\* WorkflowExecution.exists: the exception raised and the value
WorkflowExecution_exists(f) ==
    IF f = OK THEN [exc |-> None, value |-> TRUE]
    ELSE IF f # UnknownResourceFault
         THEN [exc |-> "ResponseError", value |-> None]
    ELSE [exc |-> None, value |-> FALSE]

----------------------------------------------------------------------------
(* The caller's inputs *)

PolicyInputs == Range(CHILD_POLICIES) \cup {"BOGUS", None}
TaskListInputs == {None, "default"}
WorkflowIdInputs == {None, "wf-A"}
TaskListOverrides == {None, "high"}
PolicyOverrides == {None, "ABANDON"}

----------------------------------------------------------------------------
(* The operations *)

Init ==
    /\ wt = DefaultWorkflowType
    /\ we = NoObject
    /\ remote \in [domain : BOOLEAN, type : {Absent}, runs : {<<>>}]
    /\ now = 0
    /\ op = "init"
    /\ args = NoArgs
    /\ req = NoRequest
    /\ fault = None
    /\ body = NoBody
    /\ outcome = "return"
    /\ ret = None
    /\ calls = 0

\* the clock advances
Tick ==
    /\ now < MaxTime
    /\ now' = now + 1
    /\ op' = "tick"
    /\ args' = NoArgs
    /\ req' = NoRequest
    /\ fault' = None
    /\ body' = NoBody
    /\ outcome' = "return"
    /\ ret' = None
    /\ calls' = 0
    /\ UNCHANGED <<wt, we, remote>>

\* wt = WorkflowType(domain, name, version, child_policy=..)
Construct(child_policy) ==
    LET r == WorkflowType__init__(DomainName, TypeName, TypeVersion,
                                  REGISTERED, 0, 0, None, child_policy,
                                  "300", "300", None)
    IN  /\ op' = "WorkflowType.__init__"
        /\ args' = [child_policy |-> child_policy]
        /\ req' = NoRequest
        /\ fault' = None
        /\ body' = NoBody
        /\ outcome' = IF r.exc = None THEN "return" ELSE r.exc
        /\ ret' = None
        /\ calls' = 0
        /\ wt' = IF r.exc = None THEN r.self ELSE wt
        /\ UNCHANGED <<we, remote, now>>

\* wt.task_list = task_list
SetTaskList(task_list) ==
    /\ op' = "WorkflowType.task_list"
    /\ args' = [task_list |-> task_list]
    /\ req' = NoRequest
    /\ fault' = None
    /\ body' = NoBody
    /\ outcome' = "return"
    /\ ret' = None
    /\ calls' = 0
    /\ wt' = [wt EXCEPT !.task_list = task_list]
    /\ UNCHANGED <<we, remote, now>>

\* wt.child_policy = policy
SetChildPolicy(policy) ==
    LET r == child_policy_setter(wt, policy)
    IN  /\ op' = "WorkflowType.child_policy"
        /\ args' = [child_policy |-> policy]
        /\ req' = NoRequest
        /\ fault' = None
        /\ body' = NoBody
        /\ outcome' = IF r.exc = None THEN "return" ELSE r.exc
        /\ ret' = None
        /\ calls' = 0
        /\ wt' = r.self
        /\ UNCHANGED <<we, remote, now>>

\* wt.save()
Save ==
    \E f \in Replies(RegisterReply(remote)) :
        LET q == save_request(wt)
        IN  /\ op' = "WorkflowType.save"
            /\ args' = NoArgs
            /\ req' = q
            /\ fault' = f
            /\ body' = NoBody
            /\ outcome' = save_outcome(f)
            /\ ret' = None
            /\ calls' = 1
            /\ remote' = IF f = OK
                         THEN [remote EXCEPT !.type = RegisteredType(q)]
                         ELSE remote
            /\ UNCHANGED <<wt, we, now>>

\* wt.delete()
Delete ==
    \E f \in Replies(DeprecateReply(remote)) :
        /\ op' = "WorkflowType.delete"
        /\ args' = NoArgs
        /\ req' = delete_request(wt)
        /\ fault' = f
        /\ body' = NoBody
        /\ outcome' = delete_outcome(f)
        /\ ret' = None
        /\ calls' = 1
        /\ remote' = IF f = OK
                     THEN [remote EXCEPT !.type.status = DEPRECATED]
                     ELSE remote
        /\ UNCHANGED <<wt, we, now>>

\* wt.exists
TypeExistsCall ==
    \E f \in Replies(DescribeTypeReply(remote)) :
        LET r == WorkflowType_exists(f)
        IN  /\ op' = "WorkflowType.exists"
            /\ args' = NoArgs
            /\ req' = describe_type_request(wt)
            /\ fault' = f
            /\ body' = NoBody
            /\ outcome' = IF r.exc = None THEN "return" ELSE r.exc
            /\ ret' = r.value
            /\ calls' = 1
            /\ UNCHANGED <<wt, we, remote, now>>

\* we = wt.start_execution(workflow_id=.., task_list=.., child_policy=..)
StartExecution(workflow_id, task_list, child_policy) ==
    LET q == start_request(wt, workflow_id, task_list, child_policy,
                           None, None, NoneList, None, now)
    IN  \E f \in Replies(StartReply(remote, q)) :
            LET run == StartedRun(remote, q)
                made == start_execution_result(wt, q.workflow_id, run.runId)
            IN  /\ f = OK => Len(remote.runs) < MaxRuns
                /\ op' = "WorkflowType.start_execution"
                /\ args' = [workflow_id |-> workflow_id,
                            task_list |-> task_list,
                            child_policy |-> child_policy]
                /\ req' = q
                /\ fault' = f
                /\ body' = IF f = OK THEN [runId |-> run.runId] ELSE NoBody
                \* no except clause: the connection's exception goes through
                /\ outcome' = IF f = OK THEN "return" ELSE ExceptionClass(f)
                /\ ret' = IF f = OK THEN made ELSE NoObject
                /\ calls' = 1
                /\ we' = IF f = OK THEN made ELSE we
                /\ remote' = IF f = OK
                             THEN [remote EXCEPT !.runs = Append(@, run)]
                             ELSE remote
                /\ UNCHANGED <<wt, now>>

\* we = WorkflowExecution(domain, wt, workflow_id, run_id): a handle to an
\* execution the caller knows of
NewHandle(workflow_id, run_id) ==
    /\ op' = "WorkflowExecution.__init__"
    /\ args' = [workflow_id |-> workflow_id, run_id |-> run_id]
    /\ req' = NoRequest
    /\ fault' = None
    /\ body' = NoBody
    /\ outcome' = "return"
    /\ ret' = None
    /\ calls' = 0
    /\ we' = WorkflowExecution__init__(DomainName, wt, workflow_id, run_id,
                                       STATUS_OPEN, None, None, None, None,
                                       NoneList, None)
    /\ UNCHANGED <<wt, remote, now>>

\* we.exists
ExecutionExistsCall ==
    /\ we.class = "WorkflowExecution"
    /\ LET q == describe_execution_request(we)
       IN  \E f \in Replies(DescribeExecutionReply(remote, q)) :
               LET r == WorkflowExecution_exists(f)
               IN  /\ op' = "WorkflowExecution.exists"
                   /\ args' = NoArgs
                   /\ req' = q
                   /\ fault' = f
                   /\ body' = NoBody
                   /\ outcome' = IF r.exc = None THEN "return" ELSE r.exc
                   /\ ret' = r.value
                   /\ calls' = 1
                   /\ UNCHANGED <<wt, we, remote, now>>

\* the executions a caller may hold a handle to: those of a listing, and one
\* the service does not know
KnownRuns ==
    {<<remote.runs[i].workflowId, remote.runs[i].runId>> :
        i \in 1..Len(remote.runs)} \cup {<<"wf-A", RunId(0)>>}

Next ==
    \/ Tick
    \/ \E p \in PolicyInputs : Construct(p)
    \/ \E t \in TaskListInputs : SetTaskList(t)
    \/ \E p \in PolicyInputs : SetChildPolicy(p)
    \/ Save
    \/ Delete
    \/ TypeExistsCall
    \/ \E w \in WorkflowIdInputs, t \in TaskListOverrides,
          p \in PolicyOverrides : StartExecution(w, t, p)
    \/ \E h \in KnownRuns : NewHandle(h[1], h[2])
    \/ ExecutionExistsCall

Spec == Init /\ [][Next]_vars

----------------------------------------------------------------------------
(* Properties of the WorkflowType operations *)

Policies == {"TERMINATE", "REQUEST_CANCEL", "ABANDON"}

\* C1: a successful start_execution() returns a WorkflowExecution whose
\* run_id is the run id the connection returned, whose workflow_id is the
\* workflow id sent, and whose task_list and child_policy are the effective
\* values: the caller's override when given, otherwise the type's own.
C1_StartExecutionResult ==
    (op = "WorkflowType.start_execution" /\ outcome = "return") =>
        /\ ret.run_id = body.runId
        /\ ret.workflow_id = req.workflow_id
        /\ ret.task_list = IF args.task_list # None
                           THEN args.task_list ELSE wt.task_list
        /\ ret.child_policy = IF args.child_policy # None
                              THEN args.child_policy ELSE wt.child_policy

\* C2: whenever the connection raises a fault during save() or delete(),
\* the operation ends with AlreadyExists, NotFound or ResponseError
\* (ResponseError for every fault that is not one of the mapped kinds) and
\* never returns normally.
C2_NoFaultSwallowed ==
    (op \in {"WorkflowType.save", "WorkflowType.delete"} /\ fault # OK) =>
        /\ outcome \in {"AlreadyExistsError", "DoesNotExistError",
                        "ResponseError"}
        /\ fault \in TransportFaults => outcome = "ResponseError"

\* C3: whenever the connection raises a fault during start_execution(), the
\* caller receives ResponseError or NotFound, never the connection's own
\* exception; the call was made once and no WorkflowExecution is returned.
C3_StartFaultTranslated ==
    (op = "WorkflowType.start_execution" /\ fault # OK) =>
        /\ outcome \in {"ResponseError", "DoesNotExistError"}
        /\ calls = 1
        /\ ret = NoObject

\* C4: in any sequence of operations, a save() of a type that the service
\* already holds, answered by the service from its state, ends with
\* AlreadyExists: not with ResponseError or NotFound, and not by returning.
C4_SaveAlreadyExists ==
    [][(/\ op' = "WorkflowType.save"
        /\ TypeExists(remote)
        /\ fault' \notin TransportFaults)
       => outcome' = "AlreadyExistsError"]_vars

\* a second save() ended with AlreadyExists on a registered type
C4_Witness ==
    /\ op = "WorkflowType.save"
    /\ fault = TypeAlreadyExistsFault
    /\ outcome = "AlreadyExistsError"
    /\ remote.type.status = REGISTERED

\* C5: a delete() of a type the service does not hold, or holds deprecated
\* (as after a successful delete()), answered by the service from its
\* state, ends with NotFound; and no delete() changes the local status.
C5_DeleteNotFound ==
    [][op' = "WorkflowType.delete" =>
        /\ wt'.status = wt.status
        /\ (/\ ~TypeExists(remote) \/ remote.type.status = DEPRECATED
            /\ fault' \notin TransportFaults)
           => outcome' = "DoesNotExistError"]_vars

\* a delete() of a deprecated type ended with NotFound
C5_Witness ==
    /\ op = "WorkflowType.delete"
    /\ fault = TypeDeprecatedFault
    /\ outcome = "DoesNotExistError"
    /\ remote.type.status = DEPRECATED
    /\ wt.status = REGISTERED

\* C6: for both classes, exists returns True iff the describe call
\* succeeds, returns False iff the connection reports UnknownResourceFault,
\* and raises ResponseError for every other fault.
C6_Exists ==
    op \in {"WorkflowType.exists", "WorkflowExecution.exists"} =>
        /\ calls = 1
        /\ fault = OK => outcome = "return" /\ ret = TRUE
        /\ fault = UnknownResourceFault => outcome = "return" /\ ret = FALSE
        /\ fault \notin {OK, UnknownResourceFault} =>
               outcome = "ResponseError" /\ ret = None

\* exists returned True for an execution the service holds
C6_Witness ==
    /\ op = "WorkflowExecution.exists"
    /\ fault = OK
    /\ outcome = "return"
    /\ ret = TRUE

\* C8: child_policy is always one of the three policies; building with or
\* assigning a policy of the set succeeds and child_policy reads back as
\* that policy; any other value fails with the validation error, makes no
\* connection call and leaves the stored child_policy as it was.
C8_ChildPolicy ==
    /\ [](/\ child_policy_getter(wt) \in Policies
          /\ op \in {"WorkflowType.__init__", "WorkflowType.child_policy"} =>
                /\ calls = 0
                /\ req = NoRequest
                /\ args.child_policy \in Policies =>
                       /\ outcome = "return"
                       /\ child_policy_getter(wt) = args.child_policy
                /\ args.child_policy \notin Policies =>
                       outcome = "ValueError")
    /\ [][(/\ op' \in {"WorkflowType.__init__", "WorkflowType.child_policy"}
           /\ args'.child_policy \notin Policies)
          => (wt' = wt /\ remote' = remote)]_vars

\* an assignment of a value outside the set failed on a type that keeps a
\* policy other than the default
C8_Witness ==
    /\ op = "WorkflowType.child_policy"
    /\ args.child_policy = "BOGUS"
    /\ outcome = "ValueError"
    /\ wt.child_policy = "ABANDON"

\* C10: the close-status constants a WorkflowExecution object carries are
\* six distinct values, exactly COMPLETED, FAILED, CANCELED, TERMINATED,
\* CONTINUED_AS_NEW and TIMED_OUT.
C10_CloseStatusValues ==
    we.class = "WorkflowExecution" =>
        /\ Range(CloseStatusConstants) =
               {"COMPLETED", "FAILED", "CANCELED", "TERMINATED",
                "CONTINUED_AS_NEW", "TIMED_OUT"}
        /\ Cardinality(Range(CloseStatusConstants)) =
               Len(CloseStatusConstants)

----------------------------------------------------------------------------
(* _diff of both classes, against a connection that answers a describe    *)
(* call with the description it holds                                     *)

\* the body of a describe_workflow_type answer, for the type record t
TypeDescription(t) ==
    [typeInfo |->
        [workflowType |-> [name |-> t.name, version |-> t.version],
         status |-> t.status,
         creationDate |-> t.creationDate,
         deprecationDate |-> t.deprecationDate,
         description |-> t.description],
     configuration |->
        [defaultTaskList |-> [name |-> t.defaultTaskList],
         defaultChildPolicy |-> t.defaultChildPolicy,
         defaultExecutionStartToCloseTimeout |->
             t.defaultExecutionStartToCloseTimeout,
         defaultTaskStartToCloseTimeout |->
             t.defaultTaskStartToCloseTimeout]]

\* the body of a describe_workflow_execution answer, for the run record x
ExecutionDescription(x) ==
    [executionInfo |->
        [execution |-> [workflowId |-> x.workflowId, runId |-> x.runId],
         executionStatus |-> x.status,
         tagList |-> x.tagList],
     executionConfiguration |->
        [taskList |-> [name |-> x.taskList],
         childPolicy |-> x.childPolicy,
         executionStartToCloseTimeout |-> x.executionStartToCloseTimeout,
         taskStartToCloseTimeout |-> x.taskStartToCloseTimeout]]

\* Diff(name, local, remote): a named tuple, read by position
Diff(name, local, upstream) == <<name, local, upstream>>

\* filter(lambda data: data[1] != data[2], attributes_comparison)
FilterChanged(attributes_comparison) ==
    SelectSeq(attributes_comparison, LAMBDA data : data[2] # data[3])

\* how _diff of either class ends on a fault of its describe call
diff_exception(f) ==
    IF f = UnknownResourceFault THEN "DoesNotExistError" ELSE "ResponseError"

\* WorkflowType._diff, given the description the describe call returned
WorkflowType_diff(self, description) ==
    LET workflow_info == description.typeInfo
        workflow_config == description.configuration
    IN  FilterChanged(<<
            Diff("name", self.name, workflow_info.workflowType.name),
            Diff("version", self.version, workflow_info.workflowType.version),
            Diff("status", self.status, workflow_info.status),
            Diff("creation_date", self.creation_date,
                 workflow_info.creationDate),
            Diff("deprecation_date", self.deprecation_date,
                 workflow_info.deprecationDate),
            Diff("task_list", self.task_list,
                 workflow_config.defaultTaskList.name),
            Diff("child_policy", child_policy_getter(self),
                 workflow_config.defaultChildPolicy),
            Diff("execution_timeout", self.execution_timeout,
                 workflow_config.defaultExecutionStartToCloseTimeout),
            Diff("decision_tasks_timout", self.decision_tasks_timeout,
                 workflow_config.defaultTaskStartToCloseTimeout),
            Diff("description", self.description, workflow_info.description)
        >>)

\* WorkflowExecution._diff, given the description the describe call returned
WorkflowExecution_diff(self, description) ==
    LET execution_info == description.executionInfo
        execution_config == description.executionConfiguration
    IN  FilterChanged(<<
            Diff("workflow_id", self.workflow_id,
                 execution_info.execution.workflowId),
            Diff("run_id", self.run_id, execution_info.execution.runId),
            Diff("status", self.status, execution_info.executionStatus),
            Diff("task_list", self.task_list, execution_config.taskList.name),
            Diff("child_policy", self.child_policy,
                 execution_config.childPolicy),
            Diff("execution_timeout", self.execution_timeout,
                 execution_config.executionStartToCloseTimeout),
            Diff("tag_list", self.tag_list, execution_info.tagList),
            Diff("decision_tasks_timeout", self.decision_tasks_timeout,
                 execution_config.taskStartToCloseTimeout)
        >>)

\* the values each attribute ranges over
NameValues == <<"ProcessOrder", "ShipOrder">>
VersionValues == <<"1.0", "2.0">>
TypeStatusValues == <<REGISTERED, DEPRECATED>>
DateValues == <<0, 1>>
TaskListValues == <<"default", "high">>
PolicyValues == <<"TERMINATE", "ABANDON">>
TimeoutValues == <<"300", "600">>
DescriptionValues == <<"orders", "billing">>
WorkflowIdValues == <<"wf-A", "wf-B">>
RunIdValues == <<RunId(1), RunId(2)>>
ExecutionStatusValues == <<STATUS_OPEN, STATUS_CLOSED>>
TagListValues == <<<<>>, <<"vip">>>>

\* the local objects: every combination of the values above
LocalTypes ==
    {WorkflowType__init__(DomainName, n, v, st, cd, dd, tl, cp, et, dt,
                          de).self :
        n \in Range(NameValues), v \in Range(VersionValues),
        st \in Range(TypeStatusValues), cd \in Range(DateValues),
        dd \in Range(DateValues), tl \in Range(TaskListValues),
        cp \in Range(PolicyValues), et \in Range(TimeoutValues),
        dt \in Range(TimeoutValues), de \in Range(DescriptionValues)}

LocalExecutions ==
    {WorkflowExecution__init__(DomainName, NoObject, w, r, st, tl, cp, et,
                               None, tg, dt) :
        w \in Range(WorkflowIdValues), r \in Range(RunIdValues),
        st \in Range(ExecutionStatusValues), tl \in Range(TaskListValues),
        cp \in Range(PolicyValues), et \in Range(TimeoutValues),
        tg \in Range(TagListValues), dt \in Range(TimeoutValues)}

\* the remote descriptions: the first value of every attribute, the second
\* of every attribute, and the two alternations
Patterns == {"first", "second", "odd", "even"}

Pick(values, i, pattern) ==
    CASE pattern = "first" -> values[1]
      [] pattern = "second" -> values[2]
      [] pattern = "odd" -> IF i % 2 = 1 THEN values[1] ELSE values[2]
      [] OTHER -> IF i % 2 = 1 THEN values[2] ELSE values[1]

RemoteTypes ==
    {[name |-> Pick(NameValues, 1, p),
      version |-> Pick(VersionValues, 2, p),
      status |-> Pick(TypeStatusValues, 3, p),
      creationDate |-> Pick(DateValues, 4, p),
      deprecationDate |-> Pick(DateValues, 5, p),
      defaultTaskList |-> Pick(TaskListValues, 6, p),
      defaultChildPolicy |-> Pick(PolicyValues, 7, p),
      defaultExecutionStartToCloseTimeout |-> Pick(TimeoutValues, 8, p),
      defaultTaskStartToCloseTimeout |-> Pick(TimeoutValues, 9, p),
      description |-> Pick(DescriptionValues, 10, p)] : p \in Patterns}

RemoteRuns ==
    {[workflowId |-> Pick(WorkflowIdValues, 1, p),
      runId |-> Pick(RunIdValues, 2, p),
      status |-> Pick(ExecutionStatusValues, 3, p),
      taskList |-> Pick(TaskListValues, 4, p),
      childPolicy |-> Pick(PolicyValues, 5, p),
      executionStartToCloseTimeout |-> Pick(TimeoutValues, 6, p),
      tagList |-> Pick(TagListValues, 7, p),
      taskStartToCloseTimeout |-> Pick(TimeoutValues, 8, p)] : p \in Patterns}

\* the answer of a connection that holds one execution description
HeldExecutionReply(r) ==
    IF r.domain /\ Len(r.runs) > 0 THEN OK ELSE UnknownResourceFault

InitDiff ==
    /\ \/ /\ wt \in LocalTypes
          /\ we = NoObject
          /\ remote \in [domain : {TRUE}, type : RemoteTypes \cup {Absent},
                         runs : {<<>>}]
       \/ /\ wt = DefaultWorkflowType
          /\ we \in LocalExecutions
          /\ remote \in [domain : {TRUE}, type : {Absent},
                         runs : {<<x>> : x \in RemoteRuns} \cup {<<>>}]
    /\ now = 0
    /\ op = "init"
    /\ args = NoArgs
    /\ req = NoRequest
    /\ fault = None
    /\ body = NoBody
    /\ outcome = "return"
    /\ ret = <<>>
    /\ calls = 0

\* wt._diff()
TypeDiff ==
    /\ we = NoObject
    /\ \E f \in Replies(DescribeTypeReply(remote)) :
        LET description == TypeDescription(remote.type)
        IN  /\ op' = "WorkflowType._diff"
            /\ args' = NoArgs
            /\ req' = describe_type_request(wt)
            /\ fault' = f
            /\ body' = IF f = OK THEN description ELSE NoBody
            /\ outcome' = IF f = OK THEN "return" ELSE diff_exception(f)
            /\ ret' = IF f = OK THEN WorkflowType_diff(wt, description)
                      ELSE <<>>
            /\ calls' = 1
            /\ UNCHANGED <<wt, we, remote, now>>

\* we._diff()
ExecutionDiff ==
    /\ we.class = "WorkflowExecution"
    /\ \E f \in Replies(HeldExecutionReply(remote)) :
        LET description == ExecutionDescription(remote.runs[1])
        IN  /\ op' = "WorkflowExecution._diff"
            /\ args' = NoArgs
            /\ req' = describe_execution_request(we)
            /\ fault' = f
            /\ body' = IF f = OK THEN description ELSE NoBody
            /\ outcome' = IF f = OK THEN "return" ELSE diff_exception(f)
            /\ ret' = IF f = OK THEN WorkflowExecution_diff(we, description)
                      ELSE <<>>
            /\ calls' = 1
            /\ UNCHANGED <<wt, we, remote, now>>

NextDiff == TypeDiff \/ ExecutionDiff

SpecDiff == InitDiff /\ [][NextDiff]_vars

----------------------------------------------------------------------------
(* Properties of _diff *)

TypeAttributes ==
    <<"name", "version", "status", "creation_date", "deprecation_date",
      "task_list", "child_policy", "execution_timeout",
      "decision_tasks_timeout", "description">>

\* the field of the service's type record each attribute is compared with
TypeRemoteField ==
    [name |-> "name", version |-> "version", status |-> "status",
     creation_date |-> "creationDate",
     deprecation_date |-> "deprecationDate",
     task_list |-> "defaultTaskList",
     child_policy |-> "defaultChildPolicy",
     execution_timeout |-> "defaultExecutionStartToCloseTimeout",
     decision_tasks_timeout |-> "defaultTaskStartToCloseTimeout",
     description |-> "description"]

ExecutionAttributes ==
    <<"workflow_id", "run_id", "status", "task_list", "child_policy",
      "execution_timeout", "tag_list", "decision_tasks_timeout">>

ExecutionRemoteField ==
    [workflow_id |-> "workflowId", run_id |-> "runId", status |-> "status",
     task_list |-> "taskList", child_policy |-> "childPolicy",
     execution_timeout |-> "executionStartToCloseTimeout",
     tag_list |-> "tagList",
     decision_tasks_timeout |-> "taskStartToCloseTimeout"]

\* the records (attribute, local value, remote value) of the attributes
\* whose values differ, in the order of the attribute list
ExpectedChanges(attributes, local, upstream, field) ==
    SelectSeq([i \in 1..Len(attributes) |->
                  <<attributes[i], local[attributes[i]],
                    upstream[field[attributes[i]]]>>],
              LAMBDA d : d[2] # d[3])

\* C7: for both classes, _diff on an entity the service holds returns
\* exactly the records (attribute name, local value, remote value) of the
\* compared attributes whose local value differs from the remote one, in
\* the order of the attribute list: none when every attribute matches, one
\* when exactly one differs.
C7_DiffChangeset ==
    /\ (op = "WorkflowType._diff" /\ fault = OK) =>
           /\ outcome = "return"
           /\ ret = ExpectedChanges(TypeAttributes, wt, remote.type,
                                    TypeRemoteField)
    /\ (op = "WorkflowExecution._diff" /\ fault = OK) =>
           /\ outcome = "return"
           /\ ret = ExpectedChanges(ExecutionAttributes, we, remote.runs[1],
                                    ExecutionRemoteField)

----------------------------------------------------------------------------
(* WorkflowExecution.history *)

EventTypes ==
    {"WorkflowExecutionStarted", "DecisionTaskScheduled", "EventOfALaterApi"}

Reverse(seq) == [i \in 1..Len(seq) |-> seq[Len(seq) + 1 - i]]

\* the events a get_workflow_execution_history request is answered with:
\* oldest first unless reverse_order, and the first page of them
HistoryPage(events, kwargs) ==
    LET ordered == IF kwargs.reverse_order = "True" THEN Reverse(events)
                   ELSE events
    IN  IF kwargs.maximum_page_size = "1" /\ Len(ordered) > 1
        THEN SubSeq(ordered, 1, 1)
        ELSE ordered

\* the get_workflow_execution_history call of history(): the positional
\* arguments of history() are not passed on
history_request(self, hargs, kwargs) ==
    [operation |-> "get_workflow_execution_history",
     domain |-> self.domain,
     run_id |-> self.run_id,
     workflow_id |-> self.workflow_id,
     args |-> <<>>,
     kwargs |-> kwargs]

\* History.from_event_list: one entry per event record, in the given order
History_from_event_list(event_list) ==
    [class |-> "History",
     events |-> [i \in 1..Len(event_list) |->
                    [id |-> event_list[i].eventId,
                     type |-> event_list[i].eventType,
                     raw |-> event_list[i]]]]

PositionalInputs == {<<>>, <<"1">>}
KeywordInputs ==
    [maximum_page_size : {None, "1"}, reverse_order : {None, "True"}]

InitHistory ==
    /\ wt = DefaultWorkflowType
    /\ remote = [domain |-> TRUE,
                 type |-> [name |-> TypeName, version |-> TypeVersion,
                           status |-> REGISTERED],
                 runs |-> <<[workflowId |-> "wf-A", runId |-> RunId(1),
                             status |-> STATUS_OPEN, events |-> <<>>]>>]
    /\ we \in {WorkflowExecution__init__(DomainName, wt, "wf-A", r,
                                         STATUS_OPEN, None, None, None, None,
                                         NoneList, None) :
                  r \in {RunId(1), RunId(0)}}
    /\ now = 0
    /\ op = "init"
    /\ args = NoArgs
    /\ req = NoRequest
    /\ fault = None
    /\ body = NoBody
    /\ outcome = "return"
    /\ ret = NoObject
    /\ calls = 0

\* the service records one more event of the execution
RecordEvent(type) ==
    /\ Len(remote.runs[1].events) < MaxEvents
    /\ remote' = [remote EXCEPT !.runs[1].events =
                     Append(@, [eventId |-> Len(@) + 1, eventType |-> type])]
    /\ op' = "event"
    /\ args' = NoArgs
    /\ req' = NoRequest
    /\ fault' = None
    /\ body' = NoBody
    /\ outcome' = "return"
    /\ ret' = NoObject
    /\ calls' = 0
    /\ UNCHANGED <<wt, we, now>>

\* we.history(*hargs, **kwargs)
HistoryCall(hargs, kwargs) ==
    LET q == history_request(we, hargs, kwargs)
    IN  \E f \in Replies(DescribeExecutionReply(remote, q)) :
            LET event_list == HistoryPage(remote.runs[1].events, kwargs)
            IN  /\ op' = "WorkflowExecution.history"
                /\ args' = [args |-> hargs, kwargs |-> kwargs]
                /\ req' = q
                /\ fault' = f
                /\ body' = IF f = OK THEN [events |-> event_list] ELSE NoBody
                \* no except clause: the connection's exception goes through
                /\ outcome' = IF f = OK THEN "return" ELSE ExceptionClass(f)
                /\ ret' = IF f = OK THEN History_from_event_list(event_list)
                          ELSE NoObject
                /\ calls' = 1
                /\ UNCHANGED <<wt, we, remote, now>>

NextHistory ==
    \/ \E t \in EventTypes : RecordEvent(t)
    \/ \E a \in PositionalInputs, k \in KeywordInputs : HistoryCall(a, k)

SpecHistory == InitHistory /\ [][NextHistory]_vars

\* C9: every history() call makes one get-history request keyed by the
\* execution's domain, run_id and workflow_id, passes the caller's optional
\* parameters on to the connection as given, and returns a report whose
\* entries are the connection's event records in the order supplied, none
\* moved, merged or dropped.
C9_History ==
    op = "WorkflowExecution.history" =>
        /\ calls = 1
        /\ req.domain = we.domain
        /\ req.run_id = we.run_id
        /\ req.workflow_id = we.workflow_id
        /\ req.args = args.args
        /\ req.kwargs = args.kwargs
        /\ fault = OK =>
               /\ Len(ret.events) = Len(body.events)
               /\ \A i \in 1..Len(body.events) :
                      ret.events[i].raw = body.events[i]

=============================================================================
